---- MODULE Spec2Model ----
(***************************************************************************)
(* Text-to-number normalisation of personal_project: the token value       *)
(* parser, the price normaliser and the multi-value extractor of           *)
(* cleaning.py, and the second price parser / extractor of ml_pipeline.py. *)
(*                                                                         *)
(* A Python str is a sequence of one-character strings.  A Python float is *)
(* an exact rational x/n whose numerator x is a decimal with integer       *)
(* coefficients (binary rounding is not modelled), or inf, -inf or nan.    *)
(***************************************************************************)
EXTENDS Integers, Sequences, FiniteSets, TLC

VARIABLES cell, out, prev

vars == <<cell, out, prev>>

-----------------------------------------------------------------------------
(* Characters and str helpers *)

Digits == {"0", "1", "2", "3", "4", "5", "6", "7", "8", "9"}

IsDigit(c) == c \in Digits

DigitVal(c) ==
  CASE c = "0" -> 0 [] c = "1" -> 1 [] c = "2" -> 2 [] c = "3" -> 3
    [] c = "4" -> 4 [] c = "5" -> 5 [] c = "6" -> 6 [] c = "7" -> 7
    [] c = "8" -> 8 [] c = "9" -> 9

\* \s of the re module and the characters str.strip() removes (of these the
\* blank, the tab and the newline are the ones the inputs hold)
Spaces == {" ", "\t", "\n"}

IsSpace(c) == c \in Spaces

\* [kKmM]
IsSuffix(c) == c \in {"k", "K", "m", "M"}

\* str.lower() on the letters that occur in the inputs
Lower(c) ==
  CASE c = "K" -> "k" [] c = "M" -> "m" [] c = "I" -> "i" [] c = "N" -> "n"
    [] c = "F" -> "f" [] c = "A" -> "a" [] c = "E" -> "e" [] c = "T" -> "t"
    [] c = "Y" -> "y" [] OTHER -> c

LowerStr(s) == [i \in 1..Len(s) |-> Lower(s[i])]

Min(a, b) == IF a <= b THEN a ELSE b

Max(a, b) == IF a >= b THEN a ELSE b

\* the end (exclusive) of the longest run of characters of the class C from i
RunEnd(s, i, C) ==
  CHOOSE j \in i..(Len(s) + 1) :
    /\ \A k \in i..(j - 1) : s[k] \in C
    /\ (j = Len(s) + 1 \/ s[j] \notin C)

\* str.strip()
Strip(s) ==
  IF \A i \in 1..Len(s) : IsSpace(s[i]) THEN <<>>
  ELSE LET a == CHOOSE i \in 1..Len(s) :
                  ~IsSpace(s[i]) /\ \A k \in 1..(i - 1) : IsSpace(s[k])
           b == CHOOSE i \in 1..Len(s) :
                  ~IsSpace(s[i]) /\ \A k \in (i + 1)..Len(s) : IsSpace(s[k])
       IN SubSeq(s, a, b)

\* str.replace(ch, '')
Remove(s, ch) == LET Keep(c) == c # ch IN SelectSeq(s, Keep)

\* str.replace(ch, by) for one-character ch and by
Replace(s, ch, by) == [i \in 1..Len(s) |-> IF s[i] = ch THEN by ELSE s[i]]

\* ch in s
Contains(s, ch) == \E i \in 1..Len(s) : s[i] = ch

-----------------------------------------------------------------------------
(* Exact decimals: [lo, d] stands for the sum of d[i] * 10^(lo+i-1); the    *)
(* coefficients d[i] are any integers, so sums and products need no carry. *)

Dec(lo, d) == [lo |-> lo, d |-> d]

DecZero == Dec(0, <<0>>)

Hi(x) == x.lo + Len(x.d) - 1

Coef(x, e) == IF e >= x.lo /\ e <= Hi(x) THEN x.d[e - x.lo + 1] ELSE 0

DecAdd(x, y) ==
  LET lo == Min(x.lo, y.lo)
      hi == Max(Hi(x), Hi(y))
  IN Dec(lo, [i \in 1..(hi - lo + 1) |-> Coef(x, lo + i - 1) + Coef(y, lo + i - 1)])

DecTimes(x, n) == Dec(x.lo, [i \in 1..Len(x.d) |-> x.d[i] * n])

DecShift(x, e) == Dec(x.lo + e, x.d)

\* the carry out of the top position once every position is reduced to 0..9
RECURSIVE TopCarry(_, _, _)
TopCarry(d, i, c) ==
  IF i > Len(d) THEN c ELSE TopCarry(d, i + 1, (d[i] + c) \div 10)

\* the digits 0..9 of a non-negative decimal, lowest first
RECURSIVE NormDigits(_, _, _)
NormDigits(d, i, c) ==
  IF i > Len(d)
  THEN IF c = 0 THEN <<>> ELSE <<c % 10>> \o NormDigits(d, i, c \div 10)
  ELSE <<(d[i] + c) % 10>> \o NormDigits(d, i + 1, (d[i] + c) \div 10)

RECURSIVE ZeroFrom(_, _, _)
ZeroFrom(d, i, c) ==
  IF i > Len(d) THEN c = 0
  ELSE (d[i] + c) % 10 = 0 /\ ZeroFrom(d, i + 1, (d[i] + c) \div 10)

DecIsZero(x) == ZeroFrom(x.d, 1, 0)

DecSign(x) ==
  LET c == TopCarry(x.d, 1, 0)
  IN IF c < 0 THEN -1 ELSE IF c > 0 THEN 1 ELSE IF DecIsZero(x) THEN 0 ELSE 1

DecEq(x, y) == DecIsZero(DecAdd(x, DecTimes(y, -1)))

-----------------------------------------------------------------------------
(* Python values: float (nan, inf, finite), None, int, and a raised        *)
(* exception as the outcome of a call.                                     *)

NaN == [k |-> "nan"]

Inf(neg) == [k |-> "inf", neg |-> neg]

Num(x) == [k |-> "num", x |-> x, n |-> 1]

Raised(e) == [k |-> "raise", exc |-> e]

NoResult == [k |-> "none"]

IsFloat(v) == v.k \in {"nan", "inf", "num"}

\* np.isnan
IsNaN(v) == v.k = "nan"

IsFinite(v) == v.k = "num"

\* float == float (nan equals nothing)
FloatEq(v, w) ==
  \/ v.k = "inf" /\ w.k = "inf" /\ v.neg = w.neg
  \/ v.k = "num" /\ w.k = "num" /\ DecEq(DecTimes(v.x, w.n), DecTimes(w.x, v.n))

\* float < 0
IsNegative(v) ==
  \/ v.k = "inf" /\ v.neg
  \/ v.k = "num" /\ DecSign(v.x) < 0

\* float * int
FloatTimes(v, m) ==
  IF v.k = "num" THEN [k |-> "num", x |-> DecTimes(v.x, m), n |-> v.n] ELSE v

\* float + float
FloatAdd(v, w) ==
  IF v.k = "nan" \/ w.k = "nan" THEN NaN
  ELSE IF v.k = "inf" THEN (IF w.k = "inf" /\ w.neg # v.neg THEN NaN ELSE v)
  ELSE IF w.k = "inf" THEN w
  ELSE [k |-> "num", x |-> DecAdd(DecTimes(v.x, w.n), DecTimes(w.x, v.n)),
        n |-> v.n * w.n]

\* float / int, for a divisor other than 0
FloatDiv(v, m) ==
  IF v.k = "num" THEN [k |-> "num", x |-> v.x, n |-> v.n * m] ELSE v

\* sum(vals): 0 + vals[1] + vals[2] + ...
RECURSIVE Sum(_)
Sum(vals) ==
  IF vals = <<>> THEN Num(DecZero)
  ELSE FloatAdd(Sum(SubSeq(vals, 1, Len(vals) - 1)), vals[Len(vals)])

\* sum(vals) / len(vals)
Mean(vals) ==
  IF Len(vals) = 0 THEN Raised("ZeroDivisionError")
  ELSE FloatDiv(Sum(vals), Len(vals))

-----------------------------------------------------------------------------
(* float(str) of Python *)

\* the decimal of a numeral made of digits and at most one '.'
DecOfNumeral(s) ==
  LET ds == SelectSeq(s, IsDigit)
      p  == IF Contains(s, ".") THEN CHOOSE i \in 1..Len(s) : s[i] = "." ELSE Len(s)
  IN Dec(p - Len(s), [i \in 1..Len(ds) |-> DigitVal(ds[Len(ds) + 1 - i])])

RECURSIVE IntOfDigits(_)
IntOfDigits(s) ==
  IF s = <<>> THEN 0
  ELSE 10 * IntOfDigits(SubSeq(s, 1, Len(s) - 1)) + DigitVal(s[Len(s)])

\* the exponent of the highest non-zero coefficient of a non-zero decimal
TopExp(x) == CHOOSE e \in x.lo..Hi(x) : Coef(x, e) # 0 /\ \A f \in (e + 1)..Hi(x) : Coef(x, f) = 0

\* the end of the mantissa of a float literal: digits, an optional '.', digits
MantissaEnd(b) ==
  LET e1 == RunEnd(b, 1, Digits)
  IN IF e1 <= Len(b) /\ b[e1] = "." THEN RunEnd(b, e1 + 1, Digits) ELSE e1

\* the start of the exponent's digits, after 'e' and an optional sign
ExpDigitsStart(b) ==
  LET x == MantissaEnd(b) + 1
  IN IF x <= Len(b) /\ b[x] \in {"+", "-"} THEN x + 1 ELSE x

\* digits [. digits] | . digits, then an optional e[+-]digits, and nothing else
IsFloatLiteral(b) ==
  LET e == MantissaEnd(b)
  IN /\ \E i \in 1..(e - 1) : IsDigit(b[i])
     /\ \/ e = Len(b) + 1
        \/ /\ e <= Len(b)
           /\ b[e] \in {"e", "E"}
           /\ ExpDigitsStart(b) <= Len(b)
           /\ RunEnd(b, ExpDigitsStart(b), Digits) = Len(b) + 1

LiteralValue(b) ==
  LET e    == MantissaEnd(b)
      mant == DecOfNumeral(SubSeq(b, 1, e - 1))
      x    == ExpDigitsStart(b)
      ex   == IF e = Len(b) + 1 THEN 0
              ELSE IF b[e + 1] = "-" THEN 0 - IntOfDigits(SubSeq(b, x, Len(b)))
              ELSE IntOfDigits(SubSeq(b, x, Len(b)))
      r    == DecShift(mant, ex)
  IN IF DecIsZero(mant) THEN Num(DecZero)
     ELSE IF TopExp(r) > 308 THEN Inf(FALSE)      \* beyond the largest double
     ELSE IF TopExp(r) < -324 THEN Num(DecZero)   \* below the smallest double
     ELSE Num(r)

FloatNeg(v) ==
  IF v.k = "inf" THEN Inf(~v.neg) ELSE IF v.k = "num" THEN FloatTimes(v, -1) ELSE v

\* float(s): surrounding whitespace and a sign are accepted, inf, infinity and
\* nan in any case, decimal literals with an exponent; anything else raises
\* ValueError.  (Digit-group underscores are not modelled: no input has one.)
PyFloat(s) ==
  LET t      == Strip(s)
      signed == t # <<>> /\ t[1] \in {"+", "-"}
      b      == IF signed THEN Tail(t) ELSE t
      lb     == LowerStr(b)
      v      == IF lb \in {<<"i", "n", "f">>, <<"i", "n", "f", "i", "n", "i", "t", "y">>}
                THEN Inf(FALSE)
                ELSE IF lb = <<"n", "a", "n">> THEN NaN
                ELSE IF IsFloatLiteral(b) THEN LiteralValue(b)
                ELSE Raised("ValueError")
  IN IF signed /\ t[1] = "-" THEN FloatNeg(v) ELSE v

-----------------------------------------------------------------------------
(* The regular expressions *)

\* [0-9]*\.?[0-9]+ matched at i: the end (exclusive) of the match, 0 if none.
\* Greedy with backtracking: the digit run, and a '.' with the digits after it
\* when at least one digit follows the '.'.
NumberEnd(s, i) ==
  LET j == RunEnd(s, i, Digits)
  IN IF j + 1 <= Len(s) /\ s[j] = "." /\ IsDigit(s[j + 1])
     THEN RunEnd(s, j + 1, Digits)
     ELSE IF j > i THEN j ELSE 0

\* TokenEnd for a pattern without \s*: the suffix must follow the number directly
TokenEndNoGap(s, i) ==
  LET e == NumberEnd(s, i)
  IN IF e = 0 THEN 0
     ELSE IF e <= Len(s) /\ IsSuffix(s[e]) THEN e + 1 ELSE e

\* ([0-9]*\.?[0-9]+\s*[kKmM]?) matched at i: the end (exclusive), 0 if none
TokenEnd(s, i) ==
  LET e == NumberEnd(s, i)
      w == RunEnd(s, e, Spaces)
  IN IF e = 0 THEN 0
     ELSE IF w <= Len(s) /\ IsSuffix(s[w]) THEN w + 1 ELSE w

\* the leftmost position >= i where the token pattern matches, 0 if none
FirstToken(s, i) ==
  IF \E p \in i..Len(s) : TokenEnd(s, p) # 0
  THEN CHOOSE p \in i..Len(s) : TokenEnd(s, p) # 0 /\ \A q \in i..(p - 1) : TokenEnd(s, q) = 0
  ELSE 0

\* re.findall(r"([0-9]*\.?[0-9]+\s*[kKmM]?)", s) from position i: the
\* non-overlapping matches, left to right
RECURSIVE FindAllTokens(_, _)
FindAllTokens(s, i) ==
  LET p == FirstToken(s, i)
  IN IF p = 0 THEN <<>>
     ELSE <<SubSeq(s, p, TokenEnd(s, p) - 1)>> \o FindAllTokens(s, TokenEnd(s, p))

\* re.search(r"([0-9]*\.?[0-9]+\s*[kKmM]?)", s): group 1, or <<>> for no match
SearchToken(s) ==
  LET p == FirstToken(s, 1)
  IN IF p = 0 THEN <<>> ELSE SubSeq(s, p, TokenEnd(s, p) - 1)

\* [-+]?[0-9]*\.?[0-9]+ matched at i: the end (exclusive), 0 if none
SignedNumberEnd(s, i) ==
  IF i <= Len(s) /\ s[i] \in {"-", "+"} /\ NumberEnd(s, i + 1) # 0
  THEN NumberEnd(s, i + 1)
  ELSE NumberEnd(s, i)

\* the leftmost position >= i where the signed pattern matches, 0 if none
FirstSigned(s, i) ==
  IF \E p \in i..Len(s) : SignedNumberEnd(s, p) # 0
  THEN CHOOSE p \in i..Len(s) :
         SignedNumberEnd(s, p) # 0 /\ \A q \in i..(p - 1) : SignedNumberEnd(s, q) = 0
  ELSE 0

\* re.findall(r"[-+]?[0-9]*\.?[0-9]+", s) from position i
RECURSIVE FindAllSigned(_, _)
FindAllSigned(s, i) ==
  LET p == FirstSigned(s, i)
  IN IF p = 0 THEN <<>>
     ELSE <<SubSeq(s, p, SignedNumberEnd(s, p) - 1)>>
            \o FindAllSigned(s, SignedNumberEnd(s, p))

-----------------------------------------------------------------------------
(* Raw cells: a str, None, or a number *)

Str(s) == [t |-> "str", s |-> s]

None == [t |-> "none"]

Number(i) == [t |-> "int", v |-> i]

\* isinstance(c, str)
IsStr(c) == c.t = "str"

\* an exception raised while a list is built leaves the call
AnyRaised(vals) == \E i \in 1..Len(vals) : vals[i].k = "raise"

FirstRaised(vals) ==
  vals[CHOOSE i \in 1..Len(vals) :
         vals[i].k = "raise" /\ \A j \in 1..(i - 1) : vals[j].k # "raise"]

\* try: ... except Exception: return np.nan
Try(v) == IF v.k = "raise" THEN NaN ELSE v

\* s.split(ch)
RECURSIVE Split(_, _)
Split(s, ch) ==
  IF ~Contains(s, ch) THEN <<s>>
  ELSE LET i == CHOOSE j \in 1..Len(s) : s[j] = ch /\ \A k \in 1..(j - 1) : s[k] # ch
       IN <<SubSeq(s, 1, i - 1)>> \o Split(SubSeq(s, i + 1, Len(s)), ch)

-----------------------------------------------------------------------------
(* cleaning.py *)

\* re.match(r"^([0-9]*\.?[0-9]+)\s*([kKmM]?)$", s) succeeds (s is stripped, so
\* '$' can only match at the very end)
GrammarMatches(s) ==
  LET e == NumberEnd(s, 1)
      w == RunEnd(s, e, Spaces)
  IN e # 0 /\ (w = Len(s) + 1 \/ (w = Len(s) /\ IsSuffix(s[w])))

\* m.group(1)
Group1(s) == SubSeq(s, 1, NumberEnd(s, 1) - 1)

\* m.group(2)
Group2(s) == IF IsSuffix(s[Len(s)]) THEN s[Len(s)] ELSE ""

\* SuffixFactor with the branch for 'm' lost
SuffixFactorNoMillion(suf) == IF suf = "k" THEN 1000 ELSE 1

\* if suf == 'k': num *= 1_000 elif suf == 'm': num *= 1_000_000
SuffixFactor(suf) ==
  IF suf = "k" THEN 1000 ELSE IF suf = "m" THEN 1000000 ELSE 1

\* _num_with_suffix_to_float without the float(s) fallback
num_with_suffix_no_fallback(c) ==
  IF ~IsStr(c) THEN NaN
  ELSE LET s == Strip(c.s)
       IN IF s = <<>> THEN NaN
          ELSE IF ~GrammarMatches(s) THEN NaN
          ELSE FloatTimes(PyFloat(Group1(s)), SuffixFactor(Lower(Group2(s))))

num_with_suffix_to_float(c) ==
  IF ~IsStr(c) THEN NaN
  ELSE LET s == Strip(c.s)
       IN IF s = <<>> THEN NaN
          ELSE IF ~GrammarMatches(s) THEN Try(PyFloat(s))
          ELSE FloatTimes(PyFloat(Group1(s)), SuffixFactor(Lower(Group2(s))))

\* the class [,\$£€] of re.sub(r"[,\$£€]", "", s)
IsCurrency(c) == c \in {",", "$", "£", "€"}

\* StripCurrency with the comma left out of the class
StripGlyphsOnly(s) == LET Keep(c) == ~IsCurrency(c) \/ c = "," IN SelectSeq(s, Keep)

StripCurrency(s) == LET Keep(c) == ~IsCurrency(c) IN SelectSeq(s, Keep)

\* RangeParts taking a range to have two endpoints, the first and the last part
RangeEndpoints(s_clean) ==
  LET NonEmpty(p) == Strip(p) # <<>>
      ps == SelectSeq(Split(s_clean, "-"), NonEmpty)
  IN IF Len(ps) <= 2 THEN [i \in 1..Len(ps) |-> Strip(ps[i])]
     ELSE <<Strip(ps[1]), Strip(ps[Len(ps)])>>

\* [p.strip() for p in s_clean.split('-') if p.strip() != ""]
RangeParts(s_clean) ==
  LET NonEmpty(p) == Strip(p) # <<>>
      ps == SelectSeq(Split(s_clean, "-"), NonEmpty)
  IN [i \in 1..Len(ps) |-> Strip(ps[i])]

\* the loop over parts: the value of the first token of every part that has one
RangeVals(parts) ==
  LET HasToken(p) == SearchToken(p) # <<>>
      ps == SelectSeq(parts, HasToken)
  IN [i \in 1..Len(ps) |-> num_with_suffix_to_float(Str(Remove(SearchToken(ps[i]), " ")))]

parse_price(c) ==
  IF ~IsStr(c) THEN NaN
  ELSE LET s       == Strip(c.s)
           s_clean == StripCurrency(s)
           vals    == RangeVals(RangeParts(s_clean))
           m       == SearchToken(s_clean)
       IN IF s = <<>> THEN NaN
          ELSE IF Contains(s_clean, "-")
          THEN IF AnyRaised(vals) THEN FirstRaised(vals)
               ELSE IF vals # <<>> THEN Mean(vals)
               ELSE NaN
          ELSE IF m = <<>> THEN NaN
          ELSE num_with_suffix_to_float(Str(Remove(m, " ")))

\* the loop over matches: the values that are not nan
ExtractVals(matches) ==
  LET vs == [i \in 1..Len(matches) |-> num_with_suffix_to_float(Str(Remove(matches[i], " ")))]
      NotNaN(v) == ~IsNaN(v)
  IN SelectSeq(vs, NotNaN)

\* CommasToBlanks deleting the commas, as parse_price does
CommasDeleted(s) == Remove(s, ",")

\* s.replace(',', ' ')
CommasToBlanks(s) == Replace(s, ",", " ")

extract_number(c) ==
  IF ~IsStr(c) THEN NaN
  ELSE LET s          == Strip(c.s)
           s_no_comma == CommasToBlanks(s)
           matches    == FindAllTokens(s_no_comma, 1)
           vals       == ExtractVals(matches)
       IN IF s = <<>> THEN NaN
          ELSE IF matches = <<>> THEN NaN
          ELSE IF AnyRaised(vals) THEN FirstRaised(vals)
          ELSE IF vals = <<>> THEN NaN
          ELSE Mean(vals)

-----------------------------------------------------------------------------
(* ml_pipeline.py *)

\* KeepPriceChars for a class without the '.'
KeepPriceCharsNoDot(s) ==
  LET Keep(c) == IsDigit(c) \/ c = "-" \/ IsSpace(c) IN SelectSeq(s, Keep)

\* re.sub(r"[^0-9\-\.\s]", "", s)
KeepPriceChars(s) ==
  LET Keep(c) == IsDigit(c) \/ c = "-" \/ c = "." \/ IsSpace(c) IN SelectSeq(s, Keep)

\* [p for p in s.split('-') if p.strip() != ""]
MlParts(s) == LET NonEmpty(p) == Strip(p) # <<>> IN SelectSeq(Split(s, "-"), NonEmpty)

\* nums = [float(p) for p in parts]; sum(nums) / len(nums)
MeanOfFloats(parts) ==
  LET nums == [i \in 1..Len(parts) |-> PyFloat(parts[i])]
  IN IF AnyRaised(nums) THEN FirstRaised(nums) ELSE Mean(nums)

ml_parse_price(c) ==
  IF ~IsStr(c) THEN NaN
  ELSE LET s == KeepPriceChars(Strip(Remove(c.s, ",")))
       IN IF Contains(s, "-") THEN Try(MeanOfFloats(MlParts(s)))
          ELSE Try(PyFloat(s))

ml_extract_number(c) ==
  IF ~IsStr(c) THEN NaN
  ELSE LET m == FindAllSigned(Remove(c.s, ","), 1)
       IN IF m = <<>> THEN NaN ELSE MeanOfFloats(m)

-----------------------------------------------------------------------------
(* str(float) / repr(float) of Python, for a non-negative finite value      *)
(* whose denominator is 1: the shortest digits, in fixed notation when the  *)
(* decimal point falls within -4 < position <= 16, else in scientific.      *)

DigitChar(n) ==
  CASE n = 0 -> "0" [] n = 1 -> "1" [] n = 2 -> "2" [] n = 3 -> "3"
    [] n = 4 -> "4" [] n = 5 -> "5" [] n = 6 -> "6" [] n = 7 -> "7"
    [] n = 8 -> "8" [] n = 9 -> "9"

\* the decimal with every coefficient reduced to a digit 0..9
Normalised(x) == Dec(x.lo, NormDigits(x.d, 1, 0))

\* the characters of the digits of x from exponent hi down to exponent lo
DigitsText(x, hi, lo) ==
  [i \in 1..(hi - lo + 1) |-> DigitChar(Coef(x, hi + 1 - i))]

\* the exponent of the lowest non-zero digit of a non-zero decimal
BottomExp(x) ==
  CHOOSE e \in x.lo..Hi(x) : Coef(x, e) # 0 /\ \A f \in x.lo..(e - 1) : Coef(x, f) = 0

RECURSIVE IntText(_)
IntText(n) == IF n < 10 THEN <<DigitChar(n)>> ELSE IntText(n \div 10) \o <<DigitChar(n % 10)>>

\* the exponent field: a sign and at least two digits
ExpText(e) ==
  LET a == IF e < 0 THEN 0 - e ELSE e
  IN <<"e", IF e < 0 THEN "-" ELSE "+">> \o (IF a < 10 THEN <<"0">> ELSE <<>>) \o IntText(a)

UnsignedRepr(x) ==
  LET n  == Normalised(x)
      hi == TopExp(n)
      lo == BottomExp(n)
  IN IF DecIsZero(n) THEN <<"0", ".", "0">>
     ELSE IF hi + 1 > 16 \/ hi + 1 < -3
     THEN DigitsText(n, hi, hi)
            \o (IF lo < hi THEN <<".">> \o DigitsText(n, hi - 1, lo) ELSE <<>>)
            \o ExpText(hi)
     ELSE (IF hi >= 0 THEN DigitsText(n, hi, 0) ELSE <<"0">>)
            \o <<".">>
            \o (IF lo < 0 THEN DigitsText(n, -1, lo) ELSE <<"0">>)

FloatRepr(v) ==
  IF v.k = "nan" THEN <<"n", "a", "n">>
  ELSE IF v.k = "inf" THEN (IF v.neg THEN <<"-">> ELSE <<>>) \o <<"i", "n", "f">>
  ELSE IF DecSign(v.x) < 0 THEN <<"-">> \o UnsignedRepr(DecTimes(v.x, -1))
  ELSE UnsignedRepr(v.x)

-----------------------------------------------------------------------------
(* The state: the raw cell handed to the functions, the value each function *)
(* returned for it (NoResult until it is called), and, once a returned     *)
(* float has been written back as text, the cell and value it came from.   *)

NoResults ==
  [token |-> NoResult, price |-> NoResult, number |-> NoResult,
   ml_price |-> NoResult, ml_number |-> NoResult]

NoPrev == [cell |-> None, v |-> NoResult]

\* every str of at most n characters over the alphabet A
Strings(A, n) == UNION {[1..m -> A] : m \in 0..n}

StrCells(S) == {Str(s) : s \in S}

\* the cells that are not a str: None and a number
NonStrCells == {None, Number(5)}

InitWith(cells) ==
  /\ cell \in cells
  /\ out = NoResults
  /\ prev = NoPrev

\* cleaning._num_with_suffix_to_float(cell)
NumWithSuffixToFloat ==
  /\ out.token = NoResult
  /\ out' = [out EXCEPT !.token = num_with_suffix_to_float(cell)]
  /\ UNCHANGED <<cell, prev>>

\* cleaning.parse_price(cell)
ParsePrice ==
  /\ out.price = NoResult
  /\ out' = [out EXCEPT !.price = parse_price(cell)]
  /\ UNCHANGED <<cell, prev>>

\* cleaning.extract_number(cell)
ExtractNumber ==
  /\ out.number = NoResult
  /\ out' = [out EXCEPT !.number = extract_number(cell)]
  /\ UNCHANGED <<cell, prev>>

\* ml_pipeline.parse_price(cell)
MlParsePrice ==
  /\ out.ml_price = NoResult
  /\ out' = [out EXCEPT !.ml_price = ml_parse_price(cell)]
  /\ UNCHANGED <<cell, prev>>

\* ml_pipeline.extract_number(cell)
MlExtractNumber ==
  /\ out.ml_number = NoResult
  /\ out' = [out EXCEPT !.ml_number = ml_extract_number(cell)]
  /\ UNCHANGED <<cell, prev>>

\* the float the token parser returned is written back as text, to be parsed again
Reserialize ==
  /\ IsFloat(out.token)
  /\ cell' = Str(FloatRepr(out.token))
  /\ prev' = [cell |-> cell, v |-> out.token]
  /\ out' = NoResults

-----------------------------------------------------------------------------
(* Bounds and input alphabets *)

MaxLen == 5

MaxExtractLen == 4

MaxRoundTripLen == 6

MaxNumeralLen == 3

MaxLead == 1

MaxFailureLen == 3

\* digits with an optional '.digits' part: the numerals of the claims
IsNumeral(s) ==
  /\ s # <<>>
  /\ \A i \in 1..Len(s) : IsDigit(s[i]) \/ s[i] = "."
  /\ Cardinality({i \in 1..Len(s) : s[i] = "."}) <= 1
  /\ IsDigit(s[Len(s)])

TokenAlphabet == {"0", "1", "5", ".", "k", "K", "m", "M", " "}

\* the tokens of the docstring of _num_with_suffix_to_float
TokenExamples ==
  { <<"1", ".", "2", "k">>, <<"3", "M">>, <<"5", "0", "0">> }

TokenCells ==
  StrCells(Strings(TokenAlphabet, MaxLen) \cup TokenExamples) \cup NonStrCells

InitToken == InitWith(TokenCells)

NextToken == NumWithSuffixToFloat

SpecToken == InitToken /\ [][NextToken]_vars

RoundTripAlphabet == {"0", "1", ".", "k", "M"}

InitRoundTrip == InitWith(StrCells(Strings(RoundTripAlphabet, MaxRoundTripLen)))

NextRoundTrip == NumWithSuffixToFloat \/ Reserialize

SpecRoundTrip == InitRoundTrip /\ [][NextRoundTrip]_vars

PriceAlphabet == {"1", "5", ".", ",", "$", "-", " ", "k", "x"}

\* prices of the data set's kind, longer than the exhaustive strings
PriceExamples ==
  { <<"$", "1", "2", ",", "0", "0", "0", "-", "$", "1", "5", ",", "0", "0", "0">>,
    <<"1", ",", "2", "0", "0">>,
    <<"£", "1", ".", "5", "k", " ", "-", " ", "€", "2", "M">>,
    <<"2", "0", "0", "0", "-", "0", "1", "-", "1", "5">>,
    <<"$", "7", "0", " ", "4", "0", "-", "9", "0", " ", "k", "m">> }

InitPrice == InitWith(StrCells(Strings(PriceAlphabet, MaxLen) \cup PriceExamples))

NextPrice == ParsePrice

SpecPrice == InitPrice /\ [][NextPrice]_vars

ExtractAlphabet == {"1", "5", ".", ",", "-", "+", " ", "k", "M", "H"}

ExtractExamples ==
  { <<"3", "5", "0", " ", "H", "P">>,
    <<"3", "0", "0", "-", "3", "5", "0">>,
    <<"1", ",", "2", "0", "0">>,
    <<"1", ",", "2", "0", "0", " ", "-", " ", "1", ",", "5", "0", "0", " ", "c", "c">> }

InitExtract ==
  InitWith(StrCells(Strings(ExtractAlphabet, MaxExtractLen) \cup ExtractExamples))

NextExtract == ExtractNumber \/ MlExtractNumber

SpecExtract == InitExtract /\ [][NextExtract]_vars

\* s \o t for every s of S and t of T
Joined(S, T) == {s \o t : s \in S, t \in T}

NumeralAlphabet == {"0", "1", "5", "."}

Numerals == {s \in Strings(NumeralAlphabet, MaxNumeralLen) : IsNumeral(s)}

\* nothing, blanks or a tab between a number and its unit
Gaps == { <<>>, <<" ">>, <<" ", " ">>, <<"\t">> }

\* units of the data set's columns
Units ==
  { <<"k", "m">>, <<"k", "W">>, <<"m", "p", "h">>, <<"M", "i", "l", "e", "s">>,
    <<"H", "P">>, <<"N", "m">>, <<"c", "c">> }

InitUnits == InitWith(StrCells(Joined(Joined(Numerals, Gaps), Units)))

NextUnits == ParsePrice \/ ExtractNumber

SpecUnits == InitUnits /\ [][NextUnits]_vars

\* well-formed prices without suffix: an optional glyph, digits with an
\* optional thousands group, an optional '.digits' part
Glyphs == { <<>>, <<"$">>, <<"£">>, <<"€">> }

Leads == Strings({"1", "2"}, MaxLead) \ {<<>>}

ThousandsGroups == { <<>>, <<",", "0", "0", "0">>, <<",", "5", "0", "0">> }

Fractions == { <<>>, <<".", "5">>, <<".", "2", "5">> }

Amounts == Joined(Joined(Joined(Glyphs, Leads), ThousandsGroups), Fractions)

AmountPairs == Joined(Joined(Amounts, {<<"-">>}), Amounts)

InitAgree == InitWith(StrCells(Amounts \cup AmountPairs))

NextAgree == ParsePrice \/ MlParsePrice

SpecAgree == InitAgree /\ [][NextAgree]_vars

FailureAlphabet == {"1", ".", "-", " ", "i", "n", "f", "e", "k", "x"}

\* tokens the token grammar rejects and float() accepts
FallbackExamples ==
  { <<"I", "n", "f", "i", "n", "i", "t", "y">>, <<"1", "e", "9", "9", "9">>,
    <<"1", "e", "3">>, <<"-", "5">>, <<"n", "a", "n">> }

FailureCells ==
  StrCells(Strings(FailureAlphabet, MaxFailureLen) \cup FallbackExamples)
    \cup NonStrCells

InitFailure == InitWith(FailureCells)

NextFailure ==
  \/ NumWithSuffixToFloat
  \/ ParsePrice
  \/ ExtractNumber
  \/ MlParsePrice
  \/ MlExtractNumber

SpecFailure == InitFailure /\ [][NextFailure]_vars

-----------------------------------------------------------------------------
(* What the claims say a token is worth, stated on the text itself *)

\* a numeral followed by at most one suffix letter
IsSuffixedNumeral(s) ==
  /\ s # <<>>
  /\ IsNumeral(IF IsSuffix(s[Len(s)]) THEN SubSeq(s, 1, Len(s) - 1) ELSE s)

\* the power of ten a suffix letter stands for: k, K thousand; m, M million
SuffixPower(c) ==
  IF c \in {"k", "K"} THEN 3 ELSE IF c \in {"m", "M"} THEN 6 ELSE 0

\* the value of a suffixed numeral: its digits, moved up by the suffix's power
Worth(s) ==
  IF IsSuffix(s[Len(s)])
  THEN Num(DecShift(DecOfNumeral(SubSeq(s, 1, Len(s) - 1)), SuffixPower(s[Len(s)])))
  ELSE Num(DecOfNumeral(s))

\* the float n as an exact value
Whole(n) == Num(Dec(0, <<n>>))

\* C1: the token parser maps every numeral with an optional suffix to the
\* numeral's value times 1 (no suffix), 1,000 (k or K) or 1,000,000 (m or M).
C1_TokenValue ==
  (out.token # NoResult /\ IsStr(cell) /\ IsSuffixedNumeral(cell.s))
    => FloatEq(out.token, Worth(cell.s))

\* '1.2k' has been parsed, to 1200.0
C1_Witness ==
  /\ cell = Str(<<"1", ".", "2", "k">>)
  /\ out.token # NoResult
  /\ FloatEq(out.token, Whole(1200))

\* C8: a value parsed from a token of the grammar, written back as decimal
\* text and parsed again, is the same value.
C8_RoundTrip ==
  (/\ prev.v # NoResult
   /\ IsStr(prev.cell)
   /\ IsSuffixedNumeral(prev.cell.s)
   /\ out.token # NoResult)
    => FloatEq(out.token, prev.v)

\* '.00001' was parsed and written back as '1e-05', which the grammar rejects
\* and the fallback parsed again
C8_Witness ==
  /\ prev.cell = Str(<<".", "0", "0", "0", "0", "1">>)
  /\ cell = Str(<<"1", "e", "-", "0", "5">>)
  /\ out.token # NoResult
  /\ FloatEq(out.token, prev.v)

\* the text without its whitespace
Squeeze(s) == LET Keep(c) == ~IsSpace(c) IN SelectSeq(s, Keep)

\* the text without commas and currency glyphs
Glyphless(s) == LET Keep(c) == c \notin {",", "$", "£", "€"} IN SelectSeq(s, Keep)

\* the text with every comma turned into a blank
Spaced(s) == [i \in 1..Len(s) |-> IF s[i] = "," THEN " " ELSE s[i]]

\* the end (exclusive) of the hyphen-free segment that starts at i
SegmentEnd(s, i) ==
  CHOOSE j \in i..(Len(s) + 1) :
    /\ \A k \in i..(j - 1) : s[k] # "-"
    /\ (j = Len(s) + 1 \/ s[j] = "-")

\* the first token, squeezed, of every hyphen-separated segment that has one
RECURSIVE SegmentTokens(_, _)
SegmentTokens(s, i) ==
  LET e   == SegmentEnd(s, i)
      tok == SearchToken(SubSeq(s, i, e - 1))
  IN (IF tok = <<>> THEN <<>> ELSE <<Squeeze(tok)>>)
       \o (IF e > Len(s) THEN <<>> ELSE SegmentTokens(s, e + 1))

\* the sum of the worths of tokens, as one exact decimal
RECURSIVE TotalWorth(_)
TotalWorth(toks) ==
  IF toks = <<>> THEN DecZero ELSE DecAdd(Worth(Head(toks)).x, TotalWorth(Tail(toks)))

\* v is the arithmetic mean of the worths of toks
IsMeanOf(v, toks) ==
  /\ IsFinite(v)
  /\ DecEq(DecTimes(v.x, Len(toks)), DecTimes(TotalWorth(toks), v.n))

\* C2: a price whose text, without commas and glyphs, holds a hyphen is the
\* mean of the first tokens of its hyphen-separated segments, however many, and
\* Missing when no segment has a token.
C2_RangeMean ==
  (out.price # NoResult /\ IsStr(cell) /\ Contains(Glyphless(cell.s), "-"))
    => LET toks == SegmentTokens(Glyphless(cell.s), 1)
       IN IF toks = <<>> THEN IsNaN(out.price) ELSE IsMeanOf(out.price, toks)

\* '$12,000-$15,000' has been parsed, to 13500.0
C2_Witness ==
  /\ cell = Str(<<"$", "1", "2", ",", "0", "0", "0", "-", "$", "1", "5", ",", "0", "0", "0">>)
  /\ out.price # NoResult
  /\ FloatEq(out.price, Whole(13500))

\* C3: a price whose text, without commas and glyphs, holds no hyphen is the
\* worth of its first token alone, and Missing when it has no token.
C3_FirstToken ==
  (out.price # NoResult /\ IsStr(cell) /\ ~Contains(Glyphless(cell.s), "-"))
    => LET tok == SearchToken(Glyphless(cell.s))
       IN IF tok = <<>> THEN IsNaN(out.price)
          ELSE FloatEq(out.price, Worth(Squeeze(tok)))

\* '1,200' has been parsed, to 1200.0
C3_Witness ==
  /\ cell = Str(<<"1", ",", "2", "0", "0">>)
  /\ out.price # NoResult
  /\ FloatEq(out.price, Whole(1200))

IsPair(s) ==
  \E h \in 1..Len(s) :
    /\ s[h] = "-"
    /\ IsNumeral(SubSeq(s, 1, h - 1))
    /\ IsNumeral(SubSeq(s, h + 1, Len(s)))

PairTokens(s) ==
  LET h == CHOOSE i \in 1..Len(s) : s[i] = "-"
  IN <<SubSeq(s, 1, h - 1), SubSeq(s, h + 1, Len(s))>>

\* C5: for two numerals joined by one hyphen each extractor, that of
\* cleaning.py and that of ml_pipeline.py, returns their mean.
C5_PairMean ==
  (IsStr(cell) /\ IsPair(cell.s))
    => /\ out.number # NoResult => IsMeanOf(out.number, PairTokens(cell.s))
       /\ out.ml_number # NoResult => IsMeanOf(out.ml_number, PairTokens(cell.s))

\* the part of C5 that is about cleaning.extract_number
C5_CleaningPairMean ==
  (IsStr(cell) /\ IsPair(cell.s) /\ out.number # NoResult)
    => IsMeanOf(out.number, PairTokens(cell.s))

\* the leading run of digits and dots of the text: its number
LeadingNumeral(s) ==
  SubSeq(s, 1, RunEnd(s, 1, Digits \cup {"."}) - 1)

\* the first letter of the unit that follows the number
UnitLetter(s) == Head(Squeeze(SubSeq(s, Len(LeadingNumeral(s)) + 1, Len(s))))

\* the number, with the unit's first letter when that is one of k K m M
NumberWithUnitLetter(s) ==
  IF IsSuffix(UnitLetter(s)) THEN LeadingNumeral(s) \o <<UnitLetter(s)>>
  ELSE LeadingNumeral(s)

\* C9: in cleaning.parse_price and cleaning.extract_number a number followed,
\* directly or after whitespace, by a word that begins with k, K, m or M is
\* multiplied by that letter's factor; followed by another word it is itself.
C9_UnitLetterIsSuffix ==
  IsStr(cell)
    => /\ out.price # NoResult
            => FloatEq(out.price, Worth(NumberWithUnitLetter(cell.s)))
       /\ out.number # NoResult
            => FloatEq(out.number, Worth(NumberWithUnitLetter(cell.s)))

\* '5 mph' went through both functions: 5000000.0 from each
C9_Witness ==
  /\ cell = Str(<<"5", " ", "m", "p", "h">>)
  /\ out.price # NoResult /\ FloatEq(out.price, Whole(5000000))
  /\ out.number # NoResult /\ FloatEq(out.number, Whole(5000000))

\* the digits and dot of every amount of a price: glyphs and commas dropped
AmountNumerals(s) ==
  LET NumChar(c) == IsDigit(c) \/ c = "."
      parts == IF Contains(s, "-") THEN PairTokens(s) ELSE <<s>>
  IN [i \in 1..Len(parts) |-> SelectSeq(parts[i], NumChar)]

\* C10: on one amount, or two amounts joined by a hyphen, without suffixes,
\* cleaning.parse_price and ml_pipeline.parse_price return the same value: the
\* amount, or the mean of the two.
C10_PriceParsersAgree ==
  (out.price # NoResult /\ out.ml_price # NoResult)
    => /\ FloatEq(out.price, out.ml_price)
       /\ IsMeanOf(out.price, AmountNumerals(cell.s))
       /\ IsMeanOf(out.ml_price, AmountNumerals(cell.s))

\* '$1,000-£2,500.5' went through both parsers: 1750.25 from each
C10_Witness ==
  /\ cell = Str(<<"$", "1", ",", "0", "0", "0", "-",
                  "£", "2", ",", "5", "0", "0", ".", "5">>)
  /\ out.price # NoResult /\ FloatEq(out.price, Num(Dec(-2, <<5, 2, 0, 5, 7, 1>>)))
  /\ out.ml_price # NoResult /\ FloatEq(out.ml_price, out.price)

\* the results the functions have returned so far
Returned == {out[f] : f \in DOMAIN out} \ {NoResult}

\* no call has raised
NeverRaises == \A v \in Returned : v.k # "raise"

\* a cell with nothing to parse: not a str, or a str without a digit (empty,
\* blank, a lone '-', words)
NothingToParse(c) == ~IsStr(c) \/ \A i \in 1..Len(c.s) : ~IsDigit(c.s[i])

\* C6: no parsing function raises, and each returns Missing for a cell with
\* nothing to parse.
C6_NeverRaisesAndMissing ==
  \A v \in Returned : v.k # "raise" /\ (NothingToParse(cell) => IsNaN(v))

\* the part of C6 about the four functions other than the token parser
C6_MissingButTokenParser ==
  \A f \in DOMAIN out \ {"token"} :
    out[f] # NoResult => (out[f].k # "raise" /\ (NothingToParse(cell) => IsNaN(out[f])))

\* C7: for a str the token parser, the price normaliser and the extractor of
\* cleaning.py return Missing or a finite float, negative only when the text
\* carries a sign.
C7_FiniteOrMissing ==
  IsStr(cell)
    => \A f \in {"token", "price", "number"} :
         out[f] # NoResult
           => /\ IsNaN(out[f]) \/ IsFinite(out[f])
              /\ IsNegative(out[f]) => Contains(cell.s, "-")

\* the part of C7 about parse_price and extract_number
C7_FiniteButTokenParser ==
  IsStr(cell)
    => \A f \in {"price", "number"} :
         out[f] # NoResult
           => /\ IsNaN(out[f]) \/ IsFinite(out[f])
              /\ ~IsNegative(out[f])

====
